---- MODULE Spec2Model ----
(***************************************************************************)
(* A model of panda/src/gobj/geomVertexArrayData.cxx: the residency state  *)
(* machine of GeomVertexArrayData (resident, compressed, disk,             *)
(* compressed-disk), its enrolment in the three global SimpleLru tiers,    *)
(* the vertex-data save file, and the handle operations that write the     *)
(* array.                                                                  *)
(*                                                                         *)
(* Every C++ method is a function from a world record w to a world record, *)
(* so that a method that calls another (make_resident calls                *)
(* restore_from_disk, evict_lru calls make_disk, ...) is the composition   *)
(* the code performs.  An action applies one public method to the current  *)
(* world.  The methods run in pipeline stage 0; cdata[b] is the stage-0    *)
(* CData of the cycler.                                                    *)
(***************************************************************************)
EXTENDS Integers, Sequences, FiniteSets, TLC

VARIABLES
  phase,        \* per buffer: "none" (no object), "read" (fillin done, not finalized), "usable"
  ram_class,    \* GeomVertexArrayData::_ram_class
  saved_block,  \* GeomVertexArrayData::_saved_block (NULL or a block of the save file)
  cdata,        \* CData of the cycler: _data and _data_full_size
  page_lru,     \* SimpleLruPage::_lru (NoLru or the tier the page is linked in)
  lru_size,     \* SimpleLruPage::_lru_size
  lru_list,     \* per tier, the pages from least to most recently used
  total_size,   \* SimpleLru::_total_size
  max_size,     \* SimpleLru::_max_size
  save_file,    \* allocated blocks of the VertexDataSaveFile: block -> bytes
  assigned,     \* how many times operator = has been called
  written,      \* history: per buffer, the bytes last written to it, and
                \* whether zlib has failed on them since
  stage1,       \* CData of the cycler at pipeline stage 1 (cdata is stage 0)
  written1,     \* history: as written, for the snapshot of stage 1
  modified,     \* CData::_modified, per buffer and stage
  next_modified,\* the stamp Geom::get_next_modified() returns next
  stamped,      \* history: per stamp issued, the bytes it was issued for
  scratch,      \* the arguments and the result of one call on plain bytes
  contexts,     \* GeomVertexArrayData::_contexts of one buffer: pairs <<device, context>>
  queued,       \* the devices on which the buffer is enqueued to be prepared
  made,         \* how many contexts the devices have created
  call,         \* history: the last call on the table, what it found and returned
  epoch         \* where a running lru_epoch() is in its traversal of the tiers,
                \* and how many evict_lru() calls it has made (up to MaxEvictCalls)

vars == <<phase, ram_class, saved_block, cdata, page_lru, lru_size, lru_list,
          total_size, max_size, save_file, assigned, written,
          stage1, written1, modified, next_modified, stamped, scratch,
          contexts, queued, made, call, epoch>>

\* The variables of the device-context table.
dvars == <<contexts, queued, made, call>>

\* The variables of the pipeline: only the staged calls change them.
ovars == <<stage1, written1, modified, next_modified, stamped, scratch, dvars>>
svars == <<ovars, epoch>>

----------------------------------------------------------------------------
(* Bounds of the model and configuration values.                           *)

MaxLen == 2
MaxAssigns == 1
MaxStamps == 2
MaxRowLen == 3
MaxStride == 2
MaxRows == 2
MaxToLen == 3
MaxFromLen == 2
MaxPos == 3
MaxEndianRows == 2
MaxContexts == 3
MaxEvictCalls == 4
MaxEntries == 3
MaxClock == 1
MaxElapsed == 1
Stride == 1
MaxCompressedBudget == 2
MaxRamBudget == 2

\* min-vertex-data-compress-size (default 64), configured small so that
\* buffers of the model are on both sides of it.
min_vertex_data_compress_size == 1

\* max-disk-vertex-data (default -1, no limit), configured small so that the
\* save file refuses writes.
max_disk_vertex_data == 2

NULL == 0

Buffers == {1, 2}
Stages == {0, 1}
Blocks == {1, 2, 3}
Byte == {0, 1}
Devices == {1, 2}

NoLru == "NULL"
RC_resident == "RC_resident"
RC_compressed == "RC_compressed"
RC_disk == "RC_disk"
RC_compressed_disk == "RC_compressed_disk"
RamClasses == {RC_resident, RC_compressed, RC_disk, RC_compressed_disk}

ram_lru == "_ram_lru"
compressed_lru == "_compressed_lru"
disk_lru == "_disk_lru"
Tiers == {ram_lru, compressed_lru, disk_lru}

\* A table whose last entry names the compressed tier.
global_lru_bug(rclass) ==
  CASE rclass = RC_resident -> ram_lru
    [] rclass = RC_compressed -> compressed_lru
    [] rclass = RC_disk -> disk_lru
    [] rclass = RC_compressed_disk -> compressed_lru

\* The table _global_lru[RC_end_of_list].
global_lru(rclass) ==
  CASE rclass = RC_resident -> ram_lru
    [] rclass = RC_compressed -> compressed_lru
    [] rclass = RC_disk -> disk_lru
    [] rclass = RC_compressed_disk -> disk_lru

----------------------------------------------------------------------------
(* Byte vectors.                                                           *)

Fill(n, v) == [i \in 1..n |-> v]

\* The byte vectors a stream delivers: runs of zeros, and runs of zeros that
\* end in a one.
Payloads ==
  {Fill(k, 0) : k \in 0..MaxLen} \cup {Fill(k - 1, 0) \o <<1>> : k \in 1..MaxLen}
Remove(seq, x) == SelectSeq(seq, LAMBDA y : y # x)
Count(seq, x) == Cardinality({i \in 1..Len(seq) : seq[i] = x})

RECURSIVE SumLen(_, _)
SumLen(f, S) ==
  IF S = {} THEN 0
  ELSE LET k == CHOOSE x \in S : TRUE IN Len(f[k]) + SumLen(f, S \ {k})

----------------------------------------------------------------------------
(* The deflate codec, an external collaborator (zlib compress2/uncompress).*)
(* A constant run deflates to one code that carries the value and the      *)
(* length; any other input is stored behind a one-byte header, one byte    *)
(* longer than the input.  uncompress recognises exactly these two forms   *)
(* and fails on anything else.                                             *)

IsRun(x) == Len(x) > 0 /\ \A i \in 1..Len(x) : x[i] = x[1]

compress2(x) ==
  IF IsRun(x) THEN <<100 + 10 * Len(x) + x[1]>> ELSE <<99>> \o x

IsDeflated(blob) ==
  \/ Len(blob) = 1 /\ blob[1] >= 100
  \/ Len(blob) >= 1 /\ blob[1] = 99

inflate(blob) ==
  IF blob[1] = 99 THEN Tail(blob)
  ELSE Fill((blob[1] - 100) \div 10, (blob[1] - 100) % 10)

\* uncompress(dest, &dest_len, source, source_len) with dest_len = cap:
\* Z_OK with the inflated bytes when source is a deflated stream whose
\* contents fit, an error otherwise.
uncompress(blob, cap) ==
  IF IsDeflated(blob) /\ Len(inflate(blob)) <= cap
  THEN [ok |-> TRUE, bytes |-> inflate(blob)]
  ELSE [ok |-> FALSE, bytes |-> << >>]

\* What the environment decides during a call:
\*   zok      whether compress2 returns Z_OK;
\*   garbage  the output buffer and its length after a failed compress2;
\*   pad      the byte found where the code reads or keeps memory it never
\*            wrote (past the end of a vector, or a buffer that a failed
\*            uncompress left unfilled);
\*   zfail    after a failed uncompress, whether dest_len differs from the
\*            buffer size, so that the nassertv on it returns ("return"), or
\*            not, so that the unfilled buffer is swapped in ("swap").
GarbageBlobs == {<< >>, <<7>>}
Env(zoks, garbages, pads, zfails) ==
  [zok : zoks, garbage : garbages, pad : pads, zfail : zfails]
EnvExpand ==
  Env({TRUE}, {<< >>}, {0}, {"return"}) \cup Env({TRUE}, {<< >>}, Byte, {"swap"})
EnvCompress ==
  Env({TRUE}, {<< >>}, Byte, {"return"}) \cup Env({FALSE}, GarbageBlobs, {0}, {"return"})

----------------------------------------------------------------------------
(* The world record: the program state the methods transform.              *)

W == [phase |-> phase, ram_class |-> ram_class, saved_block |-> saved_block,
      cdata |-> cdata, page_lru |-> page_lru, lru_size |-> lru_size,
      lru_list |-> lru_list, total_size |-> total_size, max_size |-> max_size,
      save_file |-> save_file]

\* No vector of the model grows beyond MaxLen + 1 bytes.
Bounded(w) ==
  \A b \in Buffers : Len(w.cdata[b].data) <= MaxLen + 1

Store(w) ==
  /\ Bounded(w)
  /\ phase' = w.phase
  /\ ram_class' = w.ram_class
  /\ saved_block' = w.saved_block
  /\ cdata' = w.cdata
  /\ page_lru' = w.page_lru
  /\ lru_size' = w.lru_size
  /\ lru_list' = w.lru_list
  /\ total_size' = w.total_size
  /\ max_size' = w.max_size
  /\ save_file' = w.save_file

\* A call that writes no bytes.
Apply(w) == Store(w) /\ UNCHANGED <<assigned, written, svars>>

\* A call that leaves buffer b holding newly written bytes.
ApplyWrite(w, b, bytes) ==
  /\ Store(w)
  /\ written' = [written EXCEPT ![b] = [ok |-> TRUE, bytes |-> bytes]]
  /\ UNCHANGED <<assigned, svars>>

\* A call during which zlib failed on the bytes of buffer b.
ApplyZlibError(w, b) ==
  /\ Store(w)
  /\ written' = [written EXCEPT ![b] = [ok |-> FALSE, bytes |-> << >>]]
  /\ UNCHANGED <<assigned, svars>>

----------------------------------------------------------------------------
(* SimpleLru and SimpleLruPage.                                            *)

\* SimpleLruPage::dequeue_lru: unlink the page from the tier it is in.
dequeue_lru(w, b) ==
  IF w.page_lru[b] = NoLru THEN w
  ELSE LET t == w.page_lru[b] IN
       [w EXCEPT !.lru_list[t] = Remove(@, b),
                 !.total_size[t] = @ - w.lru_size[b],
                 !.page_lru[b] = NoLru]

\* SimpleLruPage::enqueue_lru(lru): leave the current tier, join lru at the
\* most-recently-used end.
enqueue_lru(w, b, lru) ==
  LET w1 == dequeue_lru(w, b) IN
  [w1 EXCEPT !.page_lru[b] = lru,
             !.lru_list[lru] = Append(@, b),
             !.total_size[lru] = @ + w1.lru_size[b]]

\* SimpleLruPage::mark_used_lru(): to the most-recently-used end of the
\* tier the page is in, if any.
mark_used_lru(w, b) ==
  IF w.page_lru[b] = NoLru THEN w ELSE enqueue_lru(w, b, w.page_lru[b])

\* SimpleLruPage::set_lru_size.
set_lru_size(w, b, n) ==
  IF w.page_lru[b] = NoLru THEN [w EXCEPT !.lru_size[b] = n]
  ELSE LET t == w.page_lru[b] IN
       [w EXCEPT !.total_size[t] = @ - w.lru_size[b] + n,
                 !.lru_size[b] = n]

\* GeomVertexArrayData::set_ram_class.
set_ram_class(w, b, rclass) ==
  enqueue_lru([w EXCEPT !.ram_class[b] = rclass], b, global_lru(rclass))

----------------------------------------------------------------------------
(* VertexDataSaveFile.                                                     *)

used_size(sf) == SumLen(sf, DOMAIN sf)

\* write_data: NULL when the bytes do not fit under max-disk-vertex-data,
\* else a block that no one holds.
write_data(sf, bytes) ==
  IF used_size(sf) + Len(bytes) > max_disk_vertex_data \/ Blocks \ DOMAIN sf = {}
  THEN NULL
  ELSE CHOOSE k \in Blocks \ DOMAIN sf : \A j \in Blocks \ DOMAIN sf : k <= j

store_block(sf, k, bytes) == [j \in DOMAIN sf \cup {k} |-> IF j = k THEN bytes ELSE sf[j]]
free_block(sf, k) == [j \in DOMAIN sf \ {k} |-> sf[j]]

----------------------------------------------------------------------------
(* GeomVertexArrayData: promotion and demotion.                            *)

\* restore_from_disk().
restore_from_disk(w, b) ==
  IF w.ram_class[b] \in {RC_disk, RC_compressed_disk}
  THEN IF w.saved_block[b] = NULL
       THEN w                                   \* nassertv(_saved_block != NULL)
       ELSE LET blk == w.saved_block[b]
                w1 == [w EXCEPT !.cdata[b].data = w.save_file[blk],
                                !.save_file = free_block(@, blk),
                                !.saved_block[b] = NULL]
            IN IF w.ram_class[b] = RC_compressed_disk
               THEN set_ram_class(w1, b, RC_compressed)
               ELSE set_ram_class(w1, b, RC_resident)
  ELSE w

\* The test that guards uncompress in make_resident().
worth_expanding(cd) == cd.data_full_size > min_vertex_data_compress_size

\* An end of make_resident() that leaves the class as it is.
finish_resident_bug(w, b) == set_lru_size(w, b, Len(w.cdata[b].data))

\* The end of make_resident(): the LRU size, then the class.
finish_resident(w, b) ==
  set_ram_class(set_lru_size(w, b, Len(w.cdata[b].data)), b, RC_resident)

\* The second half of make_resident(): expand a compressed buffer.
expand_compressed(w, b, env) ==
  LET cd == w.cdata[b]
      done(w1) == finish_resident(w1, b)
  IN IF worth_expanding(cd)
     THEN LET r == uncompress(cd.data, cd.data_full_size) IN
          IF r.ok
          THEN IF Len(r.bytes) = cd.data_full_size
               THEN done([w EXCEPT !.cdata[b].data = r.bytes])
               ELSE w                           \* nassertv(dest_len == new_data.size())
          ELSE IF env.zfail = "return"
               THEN w                           \* dest_len was cut short: the same nassertv
               ELSE done([w EXCEPT !.cdata[b].data = Fill(cd.data_full_size, env.pad)])
     ELSE done(w)

\* make_resident().
make_resident(w, b, env) ==
  IF w.ram_class[b] = RC_resident
  THEN mark_used_lru(w, b)
  ELSE LET w1 == IF w.ram_class[b] \in {RC_disk, RC_compressed_disk}
                 THEN restore_from_disk(w, b) ELSE w
       IN IF w1.ram_class[b] = RC_compressed
          THEN expand_compressed(w1, b, env)
          ELSE w1

\* Whether make_resident() reaches the call of uncompress.
calls_uncompress(w, b) ==
  /\ w.ram_class[b] # RC_resident
  /\ LET w1 == IF w.ram_class[b] \in {RC_disk, RC_compressed_disk} THEN restore_from_disk(w, b) ELSE w
     IN /\ w1.ram_class[b] = RC_compressed
        /\ worth_expanding(w1.cdata[b])

\* The bytes compress2 reads: _data_full_size bytes starting at &_data[0].
compress_source(cd, env) ==
  IF Len(cd.data) >= cd.data_full_size
  THEN SubSeq(cd.data, 1, cd.data_full_size)
  ELSE cd.data \o Fill(cd.data_full_size - Len(cd.data), env.pad)

\* A test that also compresses a buffer of exactly the minimum size.
worth_compressing_bug(cd) == cd.data_full_size >= min_vertex_data_compress_size

\* The test that guards compress2 in make_compressed().
worth_compressing(cd) == cd.data_full_size > min_vertex_data_compress_size

\* A compression that leaves the LRU size as it was.
compress_resident_bug(w, b, env) ==
  LET cd == w.cdata[b]
      w1 == IF worth_compressing(cd)
            THEN [w EXCEPT !.cdata[b].data =
                    IF env.zok THEN compress2(compress_source(cd, env))
                    ELSE env.garbage]
            ELSE w
  IN set_ram_class(w1, b, RC_compressed)

\* The second half of make_compressed(): compress a resident buffer.
compress_resident(w, b, env) ==
  LET cd == w.cdata[b]
      w1 == IF worth_compressing(cd)
            THEN [w EXCEPT !.cdata[b].data =
                    IF env.zok THEN compress2(compress_source(cd, env))
                    ELSE env.garbage]
            ELSE w
  IN set_ram_class(set_lru_size(w1, b, Len(w1.cdata[b].data)), b, RC_compressed)

\* Whether make_compressed() reaches the call of compress2.
calls_compress2(w, b) ==
  /\ w.ram_class[b] # RC_compressed
  /\ LET w1 == IF w.ram_class[b] \in {RC_disk, RC_compressed_disk}
               THEN restore_from_disk(w, b) ELSE w
     IN /\ w1.ram_class[b] = RC_resident
        /\ worth_compressing(w1.cdata[b])

\* make_compressed().
make_compressed(w, b, env) ==
  IF w.ram_class[b] = RC_compressed
  THEN mark_used_lru(w, b)
  ELSE LET w1 == IF w.ram_class[b] \in {RC_disk, RC_compressed_disk}
                 THEN restore_from_disk(w, b) ELSE w
       IN IF w1.ram_class[b] = RC_resident
          THEN compress_resident(w1, b, env)
          ELSE w1

\* A refusal that does not mark the page used.
make_disk_refused_bug(w, b) == w

\* make_disk() when write_data returns NULL: "Can't write it to disk."
make_disk_refused(w, b) == mark_used_lru(w, b)

\* A store that labels every buffer Disk.
make_disk_stored_bug(w, b, blk) ==
  set_ram_class([w EXCEPT !.save_file = store_block(@, blk, w.cdata[b].data),
                          !.saved_block[b] = blk,
                          !.cdata[b].data = << >>],
                b, RC_disk)

\* make_disk() when write_data returns a block: the vector is swapped with
\* an empty one, and the class follows the class the bytes had.
make_disk_stored(w, b, blk) ==
  LET w1 == [w EXCEPT !.save_file = store_block(@, blk, w.cdata[b].data),
                      !.saved_block[b] = blk,
                      !.cdata[b].data = << >>]
  IN IF w.ram_class[b] = RC_resident
     THEN set_ram_class(w1, b, RC_disk)
     ELSE set_ram_class(w1, b, RC_compressed_disk)

\* make_disk().
make_disk(w, b) ==
  IF w.ram_class[b] \in {RC_disk, RC_compressed_disk}
  THEN mark_used_lru(w, b)
  ELSE IF w.saved_block[b] # NULL
       THEN w                                   \* nassertv(_saved_block == NULL)
       ELSE LET blk == write_data(w.save_file, w.cdata[b].data) IN
            IF blk = NULL
            THEN make_disk_refused(w, b)
            ELSE make_disk_stored(w, b, blk)

\* An eviction that brings a buffer back from disk.
evict_from_disk_bug(w, b) == restore_from_disk(w, b)

\* evict_lru(), case RC_disk and RC_compressed_disk: "Cannot evict array
\* data from disk."
evict_from_disk(w, b) == w

\* An eviction that compresses a Resident buffer whatever the budget.
evict_lru_bug(w, b, env) ==
  IF w.page_lru[b] # global_lru(w.ram_class[b])
  THEN w
  ELSE CASE w.ram_class[b] = RC_resident -> make_compressed(w, b, env)
         [] w.ram_class[b] = RC_compressed -> make_disk(w, b)
         [] OTHER -> evict_from_disk(w, b)

\* evict_lru().
evict_lru(w, b, env) ==
  IF w.page_lru[b] # global_lru(w.ram_class[b])
  THEN w                                        \* nassertv(get_lru() == get_global_lru(_ram_class))
  ELSE CASE w.ram_class[b] = RC_resident ->
              IF w.max_size[compressed_lru] = 0
              THEN make_disk(w, b)
              ELSE make_compressed(w, b, env)
         [] w.ram_class[b] = RC_compressed -> make_disk(w, b)
         [] OTHER -> evict_from_disk(w, b)

\* Whether evict_lru() on page p reaches compress2 and compress2 fails.
evict_zlib_error(w, p, env) ==
  /\ w.page_lru[p] = global_lru(w.ram_class[p])
  /\ w.ram_class[p] = RC_resident
  /\ w.max_size[compressed_lru] # 0
  /\ calls_compress2(w, p)
  /\ ~env.zok

\* Whether evict_lru() on page p reaches write_data and write_data refuses.
evict_refused(w, p) ==
  /\ w.page_lru[p] = global_lru(w.ram_class[p])
  /\ \/ w.ram_class[p] = RC_resident /\ w.max_size[compressed_lru] = 0
     \/ w.ram_class[p] = RC_compressed
  /\ w.saved_block[p] = NULL
  /\ write_data(w.save_file, w.cdata[p].data) = NULL

\* One round of the loop of SimpleLru::do_evict: the page's evict_lru().
\* r carries the world, the pages on which zlib failed, and whether a
\* write was refused.
evict_page(r, p, env) ==
  [w |-> evict_lru(r.w, p, env),
   bad |-> IF evict_zlib_error(r.w, p, env) THEN r.bad \cup {p} ELSE r.bad,
   refused |-> r.refused \/ evict_refused(r.w, p)]

\* SimpleLru::do_evict: from the least recently used page on, evict while
\* the tier is over its budget; stop after the page that was last when the
\* traversal began.
RECURSIVE do_evict(_, _, _, _)
do_evict(r, t, pages, env) ==
  IF pages = << >> \/ r.w.total_size[t] <= r.w.max_size[t]
  THEN r
  ELSE do_evict(evict_page(r, Head(pages), env), t, Tail(pages), env)

\* SimpleLru::begin_epoch.
begin_epoch(r, t, env) == do_evict(r, t, r.w.lru_list[t], env)

\* An epoch that leaves the compressed tier alone.
lru_epoch_run_bug(w, env) ==
  begin_epoch([w |-> w, bad |-> {}, refused |-> FALSE], ram_lru, env)

\* lru_epoch(): the RAM tier, then the compressed tier, not the disk tier.
lru_epoch_run(w, env) ==
  begin_epoch(begin_epoch([w |-> w, bad |-> {}, refused |-> FALSE], ram_lru, env),
              compressed_lru, env)

lru_epoch(w, env) == lru_epoch_run(w, env).w

----------------------------------------------------------------------------
(* GeomVertexArrayData: construction, copy and assignment.                 *)

\* GeomVertexArrayData(array_format, usage_hint).
construct(w, b) ==
  enqueue_lru([w EXCEPT !.phase[b] = "usable",
                        !.ram_class[b] = RC_resident,
                        !.saved_block[b] = NULL,
                        !.cdata[b] = [data |-> << >>, data_full_size |-> 0],
                        !.page_lru[b] = NoLru,
                        !.lru_size[b] = 0],
              b, global_lru(RC_resident))

\* GeomVertexArrayData(const GeomVertexArrayData &copy).
copy_construct(w, b, copy) ==
  enqueue_lru([w EXCEPT !.phase[b] = "usable",
                        !.ram_class[b] = w.ram_class[copy],
                        !.saved_block[b] = NULL,
                        !.cdata[b] = w.cdata[copy],
                        !.page_lru[b] = NoLru,
                        !.lru_size[b] = w.lru_size[copy]],
              b, global_lru(w.ram_class[copy]))

\* operator = (const GeomVertexArrayData &copy).
assign(w, b, copy) ==
  [set_lru_size(w, b, w.lru_size[copy]) EXCEPT !.cdata[b] = w.cdata[copy]]

\* ~GeomVertexArrayData(): delete _saved_block, which frees its allocation
\* in the save file; then the members and bases go: the cycler with its
\* bytes, and the LRU page, which leaves its tier.  (release_all() works on
\* the device-context table, see below.)
destroy(w, b) ==
  LET w0 == IF w.saved_block[b] # NULL
            THEN [w EXCEPT !.save_file = free_block(@, w.saved_block[b])]
            ELSE w
      w1 == dequeue_lru(w0, b)
  IN [w1 EXCEPT !.phase[b] = "none",
                !.ram_class[b] = RC_resident,
                !.saved_block[b] = NULL,
                !.cdata[b] = [data |-> << >>, data_full_size |-> 0],
                !.lru_size[b] = 0]

\* make_from_bam(): the default constructor, then fillin() from a stream of
\* native endianness.
fillin(w, b, bytes) ==
  [w EXCEPT !.phase[b] = "read",
            !.ram_class[b] = RC_resident,
            !.saved_block[b] = NULL,
            !.page_lru[b] = NoLru,
            !.cdata[b] = [data |-> bytes, data_full_size |-> Len(bytes)],
            !.lru_size[b] = Len(bytes)]

\* finalize().
finalize(w, b) ==
  set_ram_class([w EXCEPT !.phase[b] = "usable"], b, RC_resident)

----------------------------------------------------------------------------
(* GeomVertexArrayDataHandle, writable, in pipeline stage 0.               *)

\* check_resident().
check_resident(w, b, env) == make_resident(w, b, env)

\* The tail every mutation shares: _data_full_size, then in stage 0 the
\* residency class and the LRU size.  w holds the CData of the caller's
\* pipeline stage.
after_write_at(w, b, stage) ==
  LET n == Len(w.cdata[b].data)
      w1 == [w EXCEPT !.cdata[b].data_full_size = n]
  IN IF stage = 0
     THEN set_lru_size(set_ram_class(w1, b, RC_resident), b, n)
     ELSE w1

after_write(w, b) == after_write_at(w, b, 0)

\* set_num_rows(n) on the vector d of a format with the given stride: the
\* vector afterwards and the value returned.
resize_rows(d, n, stride) ==
  LET delta == n - (Len(d) \div stride)
  IN IF delta # 0
     THEN [data |-> IF delta > 0 THEN d \o Fill(delta * stride, 0)
                    ELSE SubSeq(d, 1, n * stride),
           ret |-> TRUE]
     ELSE [data |-> d, ret |-> FALSE]

\* unclean_set_num_rows(n) likewise: a new vector of n * stride bytes.
unclean_resize_rows(d, n, stride) ==
  LET delta == n - (Len(d) \div stride)
  IN IF delta # 0
     THEN [data |-> Fill(n * stride, 0), ret |-> TRUE]
     ELSE [data |-> d, ret |-> FALSE]

\* set_num_rows(n) called in pipeline stage `stage`.
set_num_rows_at(w, b, n, env, stage) ==
  LET w1 == check_resident(w, b, env)
      r == resize_rows(w1.cdata[b].data, n, Stride)
  IN IF r.ret
     THEN after_write_at([w1 EXCEPT !.cdata[b].data = r.data], b, stage)
     ELSE w1

\* set_num_rows(n).
set_num_rows(w, b, n, env) == set_num_rows_at(w, b, n, env, 0)

\* unclean_set_num_rows(n) called in pipeline stage `stage`.
unclean_set_num_rows_at(w, b, n, env, stage) ==
  LET w1 == check_resident(w, b, env)
      r == unclean_resize_rows(w1.cdata[b].data, n, Stride)
  IN IF r.ret
     THEN after_write_at([w1 EXCEPT !.cdata[b].data = r.data], b, stage)
     ELSE w1

\* copy_data_from(other) called in pipeline stage `stage`.
copy_data_from_at(w, b, other, env, stage) ==
  LET w1 == check_resident(w, b, env)
      w2 == check_resident(w1, other, env)
  IN after_write_at([w2 EXCEPT !.cdata[b].data = w2.cdata[other].data], b, stage)

\* copy_data_from(other).
copy_data_from(w, b, other, env) == copy_data_from_at(w, b, other, env, 0)

----------------------------------------------------------------------------
(* Actions: one public call each.                                          *)

Usable(b) == phase[b] = "usable"

Construct(b) ==
  /\ phase[b] = "none"
  /\ ApplyWrite(construct(W, b), b, << >>)

CopyConstruct(b, copy) ==
  /\ phase[b] = "none"
  /\ Usable(copy)
  /\ Store(copy_construct(W, b, copy))
  /\ written' = [written EXCEPT ![b] = written[copy]]
  /\ UNCHANGED <<assigned, svars>>

\* operator = as a call: _cycler = copy._cycler replaces the CData of every
\* stage, then each stage draws a stamp of its own from
\* Geom::get_next_modified().
Assign(b, copy) ==
  /\ assigned < MaxAssigns
  /\ Usable(b)
  /\ Usable(copy)
  /\ Store(assign(W, b, copy))
  /\ written' = [written EXCEPT ![b] = written[copy]]
  /\ stage1' = [stage1 EXCEPT ![b] = stage1[copy]]
  /\ written1' = [written1 EXCEPT ![b] = written1[copy]]
  /\ modified' = [modified EXCEPT ![b] = [s \in Stages |-> next_modified + s]]
  /\ next_modified' = next_modified + 2
  /\ stamped' = [k \in DOMAIN stamped \cup {next_modified, next_modified + 1} |->
                    IF k = next_modified THEN cdata[copy].data
                    ELSE IF k = next_modified + 1 THEN stage1[copy].data
                    ELSE stamped[k]]
  /\ assigned' = assigned + 1
  /\ UNCHANGED <<scratch, dvars, epoch>>

Destroy(b) ==
  /\ phase[b] # "none"
  /\ ApplyWrite(destroy(W, b), b, << >>)

Fillin(b) ==
  /\ phase[b] = "none"
  /\ \E bytes \in Payloads : ApplyWrite(fillin(W, b, bytes), b, bytes)

Finalize(b) ==
  /\ phase[b] = "read"
  /\ Apply(finalize(W, b))

MakeResident(b) ==
  /\ Usable(b)
  /\ \E env \in EnvExpand : Apply(make_resident(W, b, env))

MakeCompressed(b) ==
  /\ Usable(b)
  /\ \E env \in EnvCompress :
       IF calls_compress2(W, b) /\ ~env.zok
       THEN ApplyZlibError(make_compressed(W, b, env), b)
       ELSE Apply(make_compressed(W, b, env))

MakeDisk(b) ==
  /\ Usable(b)
  /\ Apply(make_disk(W, b))

RestoreFromDisk(b) ==
  /\ Usable(b)
  /\ Apply(restore_from_disk(W, b))

EvictLru(b) ==
  /\ Usable(b)
  /\ \E env \in EnvCompress :
       IF /\ ram_class[b] = RC_resident
          /\ max_size[compressed_lru] # 0
          /\ calls_compress2(W, b)
          /\ ~env.zok
       THEN ApplyZlibError(evict_lru(W, b, env), b)
       ELSE Apply(evict_lru(W, b, env))

SetNumRows(b) ==
  /\ Usable(b)
  /\ \E n \in 0..(MaxLen \div Stride), env \in EnvExpand :
       LET w2 == set_num_rows(W, b, n, env) IN
       IF Len(check_resident(W, b, env).cdata[b].data) \div Stride # n
       THEN ApplyWrite(w2, b, w2.cdata[b].data)
       ELSE Apply(w2)

CopyDataFrom(b, other) ==
  /\ Usable(b)
  /\ Usable(other)
  /\ \E env \in EnvExpand :
       LET w2 == copy_data_from(W, b, other, env) IN
       ApplyWrite(w2, b, w2.cdata[b].data)

LruEpoch ==
  \E env \in EnvCompress :
    LET r == lru_epoch_run(W, env) IN
    /\ Store(r.w)
    /\ written' = [b \in Buffers |->
                     IF b \in r.bad THEN [ok |-> FALSE, bytes |-> << >>]
                     ELSE written[b]]
    /\ UNCHANGED <<assigned, svars>>

\* No lru_epoch() is running.
NoEpoch == [pc |-> "idle", node |-> NULL, end |-> NULL, calls |-> 0]

\* No object exists, the tiers and the save file are empty.
InitWorld ==
  /\ phase = [b \in Buffers |-> "none"]
  /\ ram_class = [b \in Buffers |-> RC_resident]
  /\ saved_block = [b \in Buffers |-> NULL]
  /\ cdata = [b \in Buffers |-> [data |-> << >>, data_full_size |-> 0]]
  /\ page_lru = [b \in Buffers |-> NoLru]
  /\ lru_size = [b \in Buffers |-> 0]
  /\ lru_list = [t \in Tiers |-> << >>]
  /\ total_size = [t \in Tiers |-> 0]
  /\ \E c \in {0, MaxCompressedBudget} :
       max_size = [t \in Tiers |->
                    IF t = ram_lru THEN MaxRamBudget
                    ELSE IF t = compressed_lru THEN c ELSE 0]
  /\ save_file = << >>
  /\ assigned = 0
  /\ written = [b \in Buffers |-> [ok |-> TRUE, bytes |-> << >>]]
  /\ stage1 = [b \in Buffers |-> [data |-> << >>, data_full_size |-> 0]]
  /\ written1 = [b \in Buffers |-> [ok |-> TRUE, bytes |-> << >>]]
  /\ modified = [b \in Buffers |-> [s \in Stages |-> 0]]
  /\ next_modified = 1
  /\ stamped = [k \in {0} |-> << >>]
  /\ contexts = {}
  /\ queued = {}
  /\ made = 0
  /\ call = [op |-> "none"]
  /\ epoch = NoEpoch

Idle == [op |-> "idle"]

Init == InitWorld /\ scratch = Idle

Next ==
  \/ LruEpoch
  \/ \E b \in Buffers :
       \/ Construct(b)
       \/ Destroy(b)
       \/ Fillin(b)
       \/ Finalize(b)
       \/ MakeResident(b)
       \/ MakeCompressed(b)
       \/ MakeDisk(b)
       \/ RestoreFromDisk(b)
       \/ EvictLru(b)
       \/ SetNumRows(b)
       \/ \E other \in Buffers :
            \/ CopyConstruct(b, other)
            \/ CopyDataFrom(b, other)

Spec == Init /\ [][Next]_vars

\* The same program with operator = among the calls, at most MaxAssigns times.
NextAssign ==
  \/ Next
  \/ \E b \in Buffers, other \in Buffers : Assign(b, other)

SpecAssign == Init /\ [][NextAssign]_vars

\* The program without the copy constructor: promotions, demotions,
\* evictions, epochs, stage-0 handle mutations, reads from a stream and
\* destruction.
NextResidency ==
  \/ LruEpoch
  \/ \E b \in Buffers :
       \/ Construct(b)
       \/ Destroy(b)
       \/ Fillin(b)
       \/ Finalize(b)
       \/ MakeResident(b)
       \/ MakeCompressed(b)
       \/ MakeDisk(b)
       \/ RestoreFromDisk(b)
       \/ EvictLru(b)
       \/ SetNumRows(b)
       \/ \E other \in Buffers : CopyDataFrom(b, other)

SpecResidency == Init /\ [][NextResidency]_vars

\* The calls that fill a buffer and put it on disk, and operator = between
\* two buffers.
NextCopy ==
  \E b \in Buffers :
    \/ Construct(b)
    \/ SetNumRows(b)
    \/ MakeDisk(b)
    \/ \E other \in Buffers : Assign(b, other)

SpecCopy == Init /\ [][NextCopy]_vars

----------------------------------------------------------------------------
(* lru_epoch() call by call: the traversal of SimpleLru::begin_epoch over  *)
(* the list of a tier, one evict_lru() at a time.  The calling thread runs *)
(* alone, as in the rest of the model.                                     *)

\* The least and the most recently used page of a tier, NULL when empty.
first_page(w, t) == IF w.lru_list[t] = << >> THEN NULL ELSE Head(w.lru_list[t])
last_page(w, t) ==
  IF w.lru_list[t] = << >> THEN NULL ELSE w.lru_list[t][Len(w.lru_list[t])]

\* The page the traversal visits after node: the one that followed node
\* before node was evicted; none once node was the page that was last when
\* the traversal began.
next_page(w, w2, t, node, end) ==
  LET l == w.lru_list[t]
      i == CHOOSE k \in 1..Len(l) : l[k] = node
  IN IF node = end \/ i = Len(l) THEN NULL ELSE l[i + 1]

\* An epoch that goes back to the RAM tier after the compressed tier.
tier_after_bug(t) == IF t = ram_lru THEN compressed_lru ELSE ram_lru

\* The tier begin_epoch() is called on after tier t.
tier_after(t) == IF t = ram_lru THEN compressed_lru ELSE "idle"

\* The traversal of tier t is about to start.
enter_tier(w, t, calls) ==
  IF t = "idle" THEN NoEpoch
  ELSE [pc |-> t, node |-> first_page(w, t), end |-> last_page(w, t),
        calls |-> calls]

EpochBegin ==
  /\ epoch.pc = "idle"
  /\ epoch' = enter_tier(W, ram_lru, 0)
  /\ UNCHANGED <<phase, ram_class, saved_block, cdata, page_lru, lru_size, lru_list,
                 total_size, max_size, save_file, assigned, written, ovars>>

EpochEvict ==
  /\ epoch.pc # "idle"
  /\ epoch.node # NULL
  /\ total_size[epoch.pc] > max_size[epoch.pc]
  /\ \E env \in EnvCompress :
       LET p == epoch.node
           w2 == evict_lru(W, p, env)
       IN /\ Store(w2)
          /\ written' = IF evict_zlib_error(W, p, env)
                        THEN [written EXCEPT ![p] = [ok |-> FALSE, bytes |-> << >>]]
                        ELSE written
          /\ epoch' = [epoch EXCEPT !.node = next_page(W, w2, epoch.pc, p, epoch.end),
                                    !.calls = IF @ < MaxEvictCalls THEN @ + 1 ELSE @]
  /\ UNCHANGED <<assigned, ovars>>

EpochLeave ==
  /\ epoch.pc # "idle"
  /\ epoch.node = NULL \/ total_size[epoch.pc] <= max_size[epoch.pc]
  /\ epoch' = enter_tier(W, tier_after(epoch.pc), epoch.calls)
  /\ UNCHANGED <<phase, ram_class, saved_block, cdata, page_lru, lru_size, lru_list,
                 total_size, max_size, save_file, assigned, written, ovars>>

\* The steps of an epoch, and between epochs the calls that fill the tiers
\* and put pages in every class.
NextEpoch ==
  \/ EpochBegin
  \/ EpochEvict
  \/ EpochLeave
  \/ /\ epoch.pc = "idle"
     /\ \E b \in Buffers :
          \/ Construct(b)
          \/ MakeCompressed(b)
          \/ MakeDisk(b)
          \/ SetNumRows(b)
          \/ \E other \in Buffers : CopyConstruct(b, other)

\* The thread that called lru_epoch() keeps running.
SpecEpoch ==
  Init /\ [][NextEpoch]_vars /\ WF_vars(EpochEvict) /\ WF_vars(EpochLeave)

----------------------------------------------------------------------------
(* The pipeline: one buffer, two stages.  The cycler keeps one CData per   *)
(* stage, copy-on-write; _ram_class, _saved_block and the LRU page belong  *)
(* to the object.  A call made by a thread of stage s works on the CData   *)
(* of stage s.                                                             *)

PBuf == 1

\* In the pipeline zlib succeeds whenever it is given what it expects; a
\* failed uncompress leaves dest_len short, so the nassertv returns.
StageEnvExpand == Env({TRUE}, {<< >>}, {0}, {"return"})
StageEnvCompress == Env({TRUE}, {<< >>}, {0}, {"return"})

\* The world as a thread of stage s finds it.
at_stage(w, s) == IF s = 0 THEN w ELSE [w EXCEPT !.cdata[PBuf] = stage1[PBuf]]

\* The world after a call of stage s that left w2: the CData the call
\* worked on goes back to its stage.
StoreStage(w2, s) ==
  /\ Store([w2 EXCEPT !.cdata[PBuf] = IF s = 0 THEN w2.cdata[PBuf] ELSE cdata[PBuf]])
  /\ stage1' = IF s = 0 THEN stage1 ELSE [stage1 EXCEPT ![PBuf] = w2.cdata[PBuf]]
  /\ Len(w2.cdata[PBuf].data) <= MaxLen + 1
  /\ UNCHANGED <<assigned, scratch, dvars, epoch>>

\* The history of stage s after the call: hist is what a reader of that
\* stage is due.
StoreWritten(hist, s) ==
  /\ written' = IF s = 0 THEN [written EXCEPT ![PBuf] = hist] ELSE written
  /\ written1' = IF s = 0 THEN written1 ELSE [written1 EXCEPT ![PBuf] = hist]

Written(s) == IF s = 0 THEN written[PBuf] ELSE written1[PBuf]

\* _cdata->_modified = Geom::get_next_modified(), drawn for the bytes given.
DrawStamp(s, bytes) ==
  /\ next_modified <= MaxStamps
  /\ modified' = [modified EXCEPT ![PBuf][s] = next_modified]
  /\ next_modified' = next_modified + 1
  /\ stamped' = [k \in DOMAIN stamped \cup {next_modified} |->
                    IF k = next_modified THEN bytes ELSE stamped[k]]

NoStamp == UNCHANGED <<modified, next_modified, stamped>>

StageConstruct ==
  /\ phase[PBuf] = "none"
  /\ StoreStage(construct(W, PBuf), 0)
  /\ UNCHANGED <<written, written1>>
  /\ NoStamp

StageSetNumRows(s) ==
  /\ Usable(PBuf)
  /\ \E n \in 0..(MaxLen \div Stride), env \in StageEnvExpand :
       LET w0 == at_stage(W, s)
           w2 == set_num_rows_at(w0, PBuf, n, env, s)
       IN /\ StoreStage(w2, s)
          /\ IF Len(check_resident(w0, PBuf, env).cdata[PBuf].data) \div Stride # n
             THEN /\ DrawStamp(s, w2.cdata[PBuf].data)
                  /\ StoreWritten([ok |-> TRUE, bytes |-> w2.cdata[PBuf].data], s)
             ELSE /\ NoStamp
                  /\ UNCHANGED <<written, written1>>

StageMakeResident(s) ==
  /\ Usable(PBuf)
  /\ \E env \in StageEnvExpand :
       StoreStage(make_resident(at_stage(W, s), PBuf, env), s)
  /\ UNCHANGED <<written, written1>>
  /\ NoStamp

StageMakeCompressed(s) ==
  /\ Usable(PBuf)
  /\ \E env \in StageEnvCompress :
       StoreStage(make_compressed(at_stage(W, s), PBuf, env), s)
  /\ UNCHANGED <<written, written1>>
  /\ NoStamp

StageMakeDisk(s) ==
  /\ Usable(PBuf)
  /\ StoreStage(make_disk(at_stage(W, s), PBuf), s)
  /\ UNCHANGED <<written, written1>>
  /\ NoStamp

\* cycle(): the CData of stage 0 becomes the CData of stage 1.
Cycle ==
  /\ Usable(PBuf)
  /\ stage1' = [stage1 EXCEPT ![PBuf] = cdata[PBuf]]
  /\ written1' = [written1 EXCEPT ![PBuf] = written[PBuf]]
  /\ modified' = [modified EXCEPT ![PBuf][1] = modified[PBuf][0]]
  /\ UNCHANGED <<phase, ram_class, saved_block, cdata, page_lru, lru_size, lru_list,
                 total_size, max_size, save_file, assigned, written,
                 next_modified, stamped, scratch, dvars, epoch>>

NextStages ==
  \/ StageConstruct
  \/ Cycle
  \/ \E s \in Stages :
       \/ StageSetNumRows(s)
       \/ StageMakeResident(s)
       \/ StageMakeCompressed(s)
       \/ StageMakeDisk(s)

SpecStages == Init /\ [][NextStages]_vars

----------------------------------------------------------------------------
(* Calls on plain bytes: the arguments are drawn at the start, one call    *)
(* is made.                                                                *)

AllBytes(n) == UNION {[1..k -> Byte] : k \in 0..n}

ScratchFrame ==
  UNCHANGED <<phase, ram_class, saved_block, cdata, page_lru, lru_size, lru_list,
              total_size, max_size, save_file, assigned, written,
              stage1, written1, modified, next_modified, stamped, dvars, epoch>>

InitRows ==
  /\ InitWorld
  /\ \E d \in AllBytes(MaxRowLen), st \in 1..MaxStride, n \in 0..MaxRows :
       scratch = [op |-> "in", data |-> d, stride |-> st, n |-> n,
                  out |-> << >>, ret |-> FALSE]

RowsSetNumRows ==
  /\ scratch.op = "in"
  /\ LET r == resize_rows(scratch.data, scratch.n, scratch.stride) IN
     scratch' = [scratch EXCEPT !.op = "set_num_rows", !.out = r.data, !.ret = r.ret]
  /\ ScratchFrame

RowsUncleanSetNumRows ==
  /\ scratch.op = "in"
  /\ LET r == unclean_resize_rows(scratch.data, scratch.n, scratch.stride) IN
     scratch' = [scratch EXCEPT !.op = "unclean_set_num_rows", !.out = r.data, !.ret = r.ret]
  /\ ScratchFrame

NextRows == RowsSetNumRows \/ RowsUncleanSetNumRows

SpecRows == InitRows /\ [][NextRows]_vars

Min(a, b) == IF a < b THEN a ELSE b

\* min(start, v.size()) and min(size, v.size() - start) of copy_subdata_from.
clamp_bug(start, size, len) ==
  [start |-> Min(start, len), size |-> Min(size, len)]

clamp(start, size, len) ==
  LET st == Min(start, len)
  IN [start |-> st, size |-> Min(size, len - st)]

\* to_v.erase(first, last) on 0-based positions [first, last).
erase(v, first, last) == SubSeq(v, 1, first) \o SubSeq(v, last + 1, Len(v))

\* to_v.insert(pos, count, char()) on the 0-based position pos.
insert(v, pos, count) ==
  SubSeq(v, 1, pos) \o Fill(count, 0) \o SubSeq(v, pos + 1, Len(v))

\* memcpy(&v[0] + to, src + from, count).
memcpy(v, to, src, from, count) ==
  [i \in 1..Len(v) |->
     IF i > to /\ i <= to + count THEN src[from + (i - to)] ELSE v[i]]

\* copy_subdata_from on the vectors to_v and from_v of two buffers: the
\* destination vector and _data_full_size afterwards.
copy_subdata(to_v, to_start, to_size, from_v, from_start, from_size) ==
  LET t == clamp(to_start, to_size, Len(to_v))
      f == clamp(from_start, from_size, Len(from_v))
      v1 == IF f.size < t.size
            THEN erase(to_v, t.start + f.size, t.start + t.size)
            ELSE IF t.size < f.size
                 THEN insert(to_v, t.start + t.size, f.size - t.size)
                 ELSE to_v
      v2 == memcpy(v1, t.start, from_v, f.start, f.size)
  IN [data |-> v2, data_full_size |-> Len(v2)]

\* copy_subdata_from called in pipeline stage `stage` on the handles of
\* buffers b and other.
copy_subdata_from_at(w, b, to_start, to_size, other, from_start, from_size, env, stage) ==
  LET w1 == check_resident(w, b, env)
      w2 == check_resident(w1, other, env)
      r == copy_subdata(w2.cdata[b].data, to_start, to_size,
                        w2.cdata[other].data, from_start, from_size)
  IN after_write_at([w2 EXCEPT !.cdata[b].data = r.data], b, stage)

\* The mutations of a handle and their arguments.
HandleCalls ==
  [op : {"set_num_rows", "unclean_set_num_rows"}, n : 0..(MaxLen \div Stride)]
  \cup [op : {"copy_data_from"}, other : {PBuf}]
  \cup [op : {"copy_subdata_from"}, other : {PBuf},
         to_start : 0..1, to_size : 0..1, from_start : 0..1, from_size : 0..1]

\* Mutation m called through a handle on buffer b in pipeline stage
\* `stage`; nassertv(_writable) returns at once on a handle that is not
\* writable.
handle_call(w, b, m, env, stage, writable) ==
  IF ~writable THEN w
  ELSE CASE m.op = "set_num_rows" -> set_num_rows_at(w, b, m.n, env, stage)
         [] m.op = "unclean_set_num_rows" -> unclean_set_num_rows_at(w, b, m.n, env, stage)
         [] m.op = "copy_data_from" -> copy_data_from_at(w, b, m.other, env, stage)
         [] m.op = "copy_subdata_from" ->
              copy_subdata_from_at(w, b, m.to_start, m.to_size, m.other,
                                   m.from_start, m.from_size, env, stage)

\* Whether mutation m reaches the tail that stamps the CData: the resizes
\* only when the number of rows changes.
mutates(w, b, m, env) ==
  m.op \in {"set_num_rows", "unclean_set_num_rows"} =>
    Len(check_resident(w, b, env).cdata[b].data) \div Stride # m.n

InitSubdata ==
  /\ InitWorld
  /\ \E tv \in AllBytes(MaxToLen), fv \in AllBytes(MaxFromLen),
        ts \in 0..MaxPos, tz \in 0..MaxPos, fs \in 0..MaxPos, fz \in 0..MaxPos :
       scratch = [op |-> "in", to |-> tv, from |-> fv,
                  to_start |-> ts, to_size |-> tz,
                  from_start |-> fs, from_size |-> fz,
                  out |-> << >>, data_full_size |-> 0]

CopySubdataFrom ==
  /\ scratch.op = "in"
  /\ LET r == copy_subdata(scratch.to, scratch.to_start, scratch.to_size,
                           scratch.from, scratch.from_start, scratch.from_size)
     IN scratch' = [scratch EXCEPT !.op = "copy_subdata_from", !.out = r.data,
                                   !.data_full_size = r.data_full_size]
  /\ ScratchFrame

NextSubdata == CopySubdataFrom

SpecSubdata == InitSubdata /\ [][NextSubdata]_vars

----------------------------------------------------------------------------
(* reverse_data_endianness.  An array format is a stride and its columns;  *)
(* a column has a start offset in the row, a number of components and the  *)
(* number of bytes of one component.                                       *)

Column(start, num_components, component_bytes) ==
  [start |-> start, num_components |-> num_components,
   component_bytes |-> component_bytes]

Formats ==
  { [stride |-> 1, columns |-> <<Column(0, 1, 1)>>],
    [stride |-> 2, columns |-> <<Column(0, 1, 2)>>],
    [stride |-> 3, columns |-> <<Column(0, 1, 1), Column(1, 1, 2)>>],
    [stride |-> 4, columns |-> <<Column(0, 2, 2)>>],
    [stride |-> 4, columns |-> <<Column(0, 1, 2), Column(2, 1, 2)>>] }

\* ReversedNumericData nd(source + ci, n); nd.store_value(dest + ci, n):
\* the n bytes at offset ci of source, last first, stored at offset ci of
\* dest.  Bytes that fall outside the arrays are not part of the result.
store_reversed(dest, source, ci, n) ==
  [i \in 1..Len(dest) |->
     IF i > ci /\ i <= ci + n /\ (2 * ci + n + 1) - i <= Len(source)
     THEN source[(2 * ci + n + 1) - i]
     ELSE dest[i]]

\* The loop over the components of one column.  st holds the row index
\* pi, dest and whether an access fell outside the arrays; ci is the offset
\* computed before the loop.
RECURSIVE reverse_components(_, _, _, _, _, _)
reverse_components(st, source, ci, component_bytes, cj, num_components) ==
  IF cj >= num_components THEN st
  ELSE reverse_components(
         [pi |-> st.pi + component_bytes,
          dest |-> store_reversed(st.dest, source, ci, component_bytes),
          oob |-> st.oob \/ ci + component_bytes > Len(source)],
         source, ci, component_bytes, cj + 1, num_components)

\* The loop over the columns of one row.
RECURSIVE reverse_columns(_, _, _, _)
reverse_columns(st, source, format, ci) ==
  IF ci >= Len(format.columns) THEN st
  ELSE LET col == format.columns[ci + 1]
           st1 == IF col.component_bytes > 1
                  THEN reverse_components(st, source, st.pi + col.start,
                                          col.component_bytes, 0,
                                          col.num_components)
                  ELSE st
       IN reverse_columns(st1, source, format, ci + 1)

\* The loop over the rows.
RECURSIVE reverse_rows(_, _, _, _)
reverse_rows(st, source, format, size) ==
  IF st.pi >= size THEN st
  ELSE LET st1 == reverse_columns(st, source, format, 0)
       IN reverse_rows([st1 EXCEPT !.pi = @ + format.stride],
                       source, format, size)

reverse_data_endianness(format, dest, source, size) ==
  reverse_rows([pi |-> 0, dest |-> dest, oob |-> FALSE], source, format, size)

\* Data new_data(size); reverse_data_endianness(&new_data[0], &data[0], size):
\* the contents new_data can have afterwards.  An access outside the arrays
\* leaves them undefined.
reversed_data(format, data) ==
  LET r == reverse_data_endianness(format, Fill(Len(data), 0), data, Len(data))
  IN IF r.oob THEN [1..Len(data) -> Byte] ELSE {r.dest}

InitEndian ==
  /\ InitWorld
  /\ \E f \in Formats, rows \in 0..MaxEndianRows :
       \E d \in [1..(rows * f.stride) -> Byte] :
         scratch = [op |-> "in", format |-> f, data |-> d,
                    out |-> << >>, out2 |-> << >>]

ReverseDataEndianness ==
  /\ scratch.op = "in"
  /\ \E d \in reversed_data(scratch.format, scratch.data) :
       scratch' = [scratch EXCEPT !.op = "reversed", !.out = d]
  /\ ScratchFrame

ReverseAgain ==
  /\ scratch.op = "reversed"
  /\ \E d \in reversed_data(scratch.format, scratch.out) :
       scratch' = [scratch EXCEPT !.op = "twice", !.out2 = d]
  /\ ScratchFrame

NextEndian == ReverseDataEndianness \/ ReverseAgain

SpecEndian == InitEndian /\ [][NextEndian]_vars

----------------------------------------------------------------------------
(* Writing a buffer to a Bam stream and reading it back into a new object. *)

UsageHints == {"UH_static", "UH_dynamic"}

\* _array_format of an object whose pointer is not completed yet.
NoFormat == [stride |-> 0, columns |-> << >>]
FileEndian == {"BE_native", "BE_reversed"}

\* write_datagram() of a Resident buffer: make_resident() leaves it alone,
\* then CData::write_datagram adds the usage hint, the size as a uint32
\* and the bytes (every length here fits a uint32).  The datagrams the call
\* can produce.
write_datagram(format, cd, file_endian) ==
  { [usage_hint |-> cd.usage_hint, size |-> Len(cd.data), bytes |-> b] :
      b \in IF file_endian = "BE_native" THEN {cd.data}
            ELSE reversed_data(format, cd.data) }

\* GeomVertexArrayData() followed by fillin(): the objects the read can
\* produce.  array_format is what the object holds when CData::fillin runs;
\* reversals counts the calls of reverse_data_endianness.
read_fillin(dg, file_endian, array_format) ==
  LET new_data == SubSeq(dg.bytes, 1, dg.size)
      known == file_endian # "BE_native" /\ array_format # NoFormat
  IN { [array_format |-> array_format,
        endian_reversed |-> file_endian # "BE_native" /\ array_format = NoFormat,
        ram_class |-> RC_resident,
        usage_hint |-> dg.usage_hint,
        reversals |-> IF known THEN 1 ELSE 0,
        data |-> d, data_full_size |-> Len(d), lru_size |-> Len(d)] :
         d \in IF known THEN reversed_data(array_format, new_data)
               ELSE {new_data} }

\* complete_pointers().
complete_pointers(obj, format) == [obj EXCEPT !.array_format = format]

\* A finalize() that reverses whatever fillin() has done.
read_finalize_bug(obj) ==
  { [obj EXCEPT !.data = d, !.ram_class = RC_resident, !.reversals = @ + 1] :
      d \in reversed_data(obj.array_format, obj.data) }

\* finalize(): the objects the call can leave.
read_finalize(obj) ==
  { [obj EXCEPT !.data = d, !.ram_class = RC_resident,
                !.reversals = IF obj.endian_reversed THEN @ + 1 ELSE @] :
      d \in IF obj.endian_reversed THEN reversed_data(obj.array_format, obj.data)
            ELSE {obj.data} }

NoDatagram == [usage_hint |-> "UH_static", size |-> 0, bytes |-> << >>]
NoObject == [array_format |-> NoFormat]

InitBam ==
  /\ InitWorld
  /\ \E f \in Formats, rows \in 0..MaxEndianRows, e \in FileEndian,
        u \in UsageHints, resolved \in BOOLEAN :
       \E d \in [1..(rows * f.stride) -> Byte] :
         scratch = [op |-> "in", format |-> f, file_endian |-> e,
                    resolved |-> resolved,
                    cdata |-> [usage_hint |-> u, data |-> d],
                    dg |-> NoDatagram, obj |-> NoObject]

WriteDatagram ==
  /\ scratch.op = "in"
  /\ \E dg \in write_datagram(scratch.format, scratch.cdata, scratch.file_endian) :
       scratch' = [scratch EXCEPT !.op = "written", !.dg = dg]
  /\ ScratchFrame

ReadFillin ==
  /\ scratch.op = "written"
  /\ \E obj \in read_fillin(scratch.dg, scratch.file_endian,
                             IF scratch.resolved THEN scratch.format ELSE NoFormat) :
       scratch' = [scratch EXCEPT !.op = "read", !.obj = obj]
  /\ ScratchFrame

CompletePointers ==
  /\ scratch.op = "read"
  /\ scratch' = [scratch EXCEPT !.op = "completed",
                                 !.obj = complete_pointers(scratch.obj, scratch.format)]
  /\ ScratchFrame

ReadFinalize ==
  /\ scratch.op = "completed"
  /\ \E obj \in read_finalize(scratch.obj) :
       scratch' = [scratch EXCEPT !.op = "finalized", !.obj = obj]
  /\ ScratchFrame

NextBam == WriteDatagram \/ ReadFillin \/ CompletePointers \/ ReadFinalize

SpecBam == InitBam /\ [][NextBam]_vars

----------------------------------------------------------------------------
(* The device-context table of one buffer.  _contexts is a map from the    *)
(* device (PreparedGraphicsObjects) to the context it created; it is kept  *)
(* here as the set of its <<device, context>> pairs.  t is the record of   *)
(* the table, the devices' queues and the number of contexts created.      *)

T == [contexts |-> contexts, queued |-> queued, made |-> made]

\* _contexts.find(prepared_objects): the entries under that key.
find(c, d) == {p \in c : p[1] = d}

\* _contexts[prepared_objects] = vbc.
map_store(c, d, vbc) == {p \in c : p[1] # d} \cup {<<d, vbc>>}

\* A clear_prepared() that empties the table.
clear_prepared_bug(t, d) ==
  IF find(t.contexts, d) # {}
  THEN [t |-> [t EXCEPT !.contexts = {}], failed |-> FALSE]
  ELSE [t |-> t, failed |-> TRUE]

\* clear_prepared(): erase the entry found, else nassertv(false).
clear_prepared(t, d) ==
  LET ci == find(t.contexts, d)
  IN IF ci # {}
     THEN [t |-> [t EXCEPT !.contexts = @ \ {CHOOSE p \in ci : TRUE}],
           failed |-> FALSE]
     ELSE [t |-> t, failed |-> TRUE]

\* PreparedGraphicsObjects::release_vertex_buffer(vbc) of device d: the
\* device drops the context and calls back clear_prepared() of the buffer.
release_vertex_buffer(t, d, vbc) == clear_prepared(t, d)

\* PreparedGraphicsObjects::enqueue_vertex_buffer.
enqueue_vertex_buffer(t, d) == [t EXCEPT !.queued = @ \cup {d}]

\* PreparedGraphicsObjects::dequeue_vertex_buffer: whether it was queued.
dequeue_vertex_buffer(t, d) ==
  [t |-> [t EXCEPT !.queued = @ \ {d}], ret |-> d \in t.queued]

\* prepare().
prepare(t, d) == enqueue_vertex_buffer(t, d)

\* is_prepared().
is_prepared(t, d) ==
  IF find(t.contexts, d) # {} THEN TRUE ELSE d \in t.queued

\* A prepare_now() that asks the device every time.
prepare_now_bug(t, d, vbc) ==
  [t |-> IF vbc # NULL
         THEN [t EXCEPT !.contexts = map_store(@, d, vbc), !.made = vbc]
         ELSE t,
   ret |-> vbc, asked |-> TRUE]

\* prepare_now(); vbc is what prepare_vertex_buffer_now of the device
\* returns when it is asked: NULL or a context it has just created.
prepare_now(t, d, vbc) ==
  LET ci == find(t.contexts, d)
  IN IF ci # {}
     THEN [t |-> t, ret |-> (CHOOSE p \in ci : TRUE)[2], asked |-> FALSE]
     ELSE [t |-> IF vbc # NULL
                 THEN [t EXCEPT !.contexts = map_store(@, d, vbc), !.made = vbc]
                 ELSE t,
           ret |-> vbc, asked |-> TRUE]

\* release().
release(t, d) ==
  LET ci == find(t.contexts, d)
  IN IF ci # {}
     THEN [t |-> release_vertex_buffer(t, d, (CHOOSE p \in ci : TRUE)[2]).t,
           ret |-> TRUE]
     ELSE dequeue_vertex_buffer(t, d)

\* The entries of a table in the order a traversal visits them.
RECURSIVE in_order(_)
in_order(c) ==
  IF c = {} THEN << >>
  ELSE LET p == CHOOSE x \in c : \A y \in c : x[1] <= y[1]
       IN <<p>> \o in_order(c \ {p})

\* The loop of release_all() over the copy of the table.
RECURSIVE release_each(_, _)
release_each(r, temp) ==
  IF temp = << >> THEN r
  ELSE LET cp == release_vertex_buffer(r.t, Head(temp)[1], Head(temp)[2])
       IN release_each([t |-> cp.t, failed |-> r.failed \/ cp.failed], Tail(temp))

\* A release_all() that counts the entries after the loop.
release_all_bug(t) ==
  LET temp == t.contexts
      r == release_each([t |-> t, failed |-> FALSE], in_order(temp))
  IN [t |-> r.t, ret |-> Cardinality(r.t.contexts),
      failed |-> r.failed \/ r.t.contexts # {}]

\* release_all().
release_all(t) ==
  LET temp == t.contexts
      num_freed == Cardinality(t.contexts)
      r == release_each([t |-> t, failed |-> FALSE], in_order(temp))
  IN [t |-> r.t, ret |-> num_freed,
      failed |-> r.failed \/ r.t.contexts # {}]   \* nassertr(_contexts.empty(), num_freed)

StoreTable(t) ==
  /\ contexts' = t.contexts
  /\ queued' = t.queued
  /\ made' = t.made
  /\ UNCHANGED <<phase, ram_class, saved_block, cdata, page_lru, lru_size, lru_list,
                 total_size, max_size, save_file, assigned, written,
                 stage1, written1, modified, next_modified, stamped, scratch, epoch>>

\* The record of a call: what it was given, what it found, what it did.
Called(op, d, ret, asked, failed) ==
  call' = [op |-> op, d |-> d, ret |-> ret, asked |-> asked, failed |-> failed,
           before |-> contexts, queued_before |-> queued]

Prepare(d) ==
  /\ StoreTable(prepare(T, d))
  /\ Called("prepare", d, NULL, FALSE, FALSE)

IsPrepared(d) ==
  /\ StoreTable(T)
  /\ Called("is_prepared", d, is_prepared(T, d), FALSE, FALSE)

PrepareNow(d) ==
  \E vbc \in {NULL} \cup {k \in {made + 1} : k <= MaxContexts} :
    LET r == prepare_now(T, d, vbc) IN
    /\ StoreTable(r.t)
    /\ Called("prepare_now", d, r.ret, r.asked, FALSE)

Release(d) ==
  LET r == release(T, d) IN
  /\ StoreTable(r.t)
  /\ Called("release", d, r.ret, FALSE, FALSE)

ReleaseAll ==
  LET r == release_all(T) IN
  /\ StoreTable(r.t)
  /\ Called("release_all", NULL, r.ret, FALSE, r.failed)

\* clear_prepared() called by a device on its own.
ClearPrepared(d) ==
  LET r == clear_prepared(T, d) IN
  /\ StoreTable(r.t)
  /\ Called("clear_prepared", d, NULL, FALSE, r.failed)

\* ~GeomVertexArrayData(), as far as the table goes: release_all().
Destructor ==
  LET r == release_all(T) IN
  /\ StoreTable(r.t)
  /\ Called("destructor", NULL, r.ret, FALSE, r.failed)

NextContexts ==
  \/ ReleaseAll
  \/ Destructor
  \/ \E d \in Devices :
       \/ Prepare(d)
       \/ IsPrepared(d)
       \/ PrepareNow(d)
       \/ Release(d)
       \/ ClearPrepared(d)

SpecContexts == Init /\ [][NextContexts]_vars

----------------------------------------------------------------------------
(* ProfileTimer (express/profileTimer.I).  A timer t is the record of its  *)
(* fields: the entries array (slot i of the C++ array is entries[i + 1]),  *)
(* _entryCount, _maxEntries, _elapsedTime and _on.  wrote is the slot the  *)
(* last mark() wrote to; state says how the process stands: "ok", "stray"  *)
(* after a write that landed outside the array, "crashed", or "exited".    *)
(* The clock is read as an argument: now is what get_short_time() gave.    *)

Tags == {"a", "b"}
Overflow == "*** Overflow ***"
Times == 0..MaxClock

\* A slot of new TimerEntry[n] before anything was recorded in it; mark()
\* never reads it.
NoEntry == [tag |-> "", time |-> 0]

\* on().
on(t, now) == [t EXCEPT !.on = now]

\* getTime(): the elapsed time, and the timer with the clock restarted.
getTime(t, now) ==
  LET et == t.elapsedTime + (now - t.on)
  IN [t |-> [t EXCEPT !.on = now, !.elapsedTime = 0], et |-> et]

\* off().
off(t, now) == [t EXCEPT !.elapsedTime = @ + (now - t.on)]

\* _entries[i]._tag = tag where slot i is outside the array: the write
\* lands in memory that is not the array's, or the process stops.
stray_write(t, i) ==
  {[t EXCEPT !.wrote = i, !.state = "stray"],
   [t EXCEPT !.wrote = i, !.state = "crashed"]}

\* mark(tag): the outcomes of the call.
mark(t, tag, now) ==
  IF ~t.allocated THEN {[t EXCEPT !.state = "exited"]}
  ELSE IF t.entryCount < t.maxEntries - 1
  THEN LET i == t.entryCount
           g == getTime(t, now)
       IN {[g.t EXCEPT !.entries[i + 1] = [tag |-> tag, time |-> g.et],
                       !.entryCount = i + 1,
                       !.wrote = i]}
  ELSE LET i == t.entryCount
       IN IF i < Len(t.entries)
          THEN {[t EXCEPT !.entries[i + 1].tag = Overflow, !.wrote = i]}
          ELSE stray_write(t, i)

\* off(tag): the clock is read by off and again by getTime.
off_tag(t, tag, now1, now) == mark(off(t, now1), tag, now)

\* A timer as init(name, maxEntries) leaves it (allocated), or as the
\* constructor leaves it when no name was given (no array).
InitTimer ==
  /\ InitWorld
  /\ \E m \in 0..MaxEntries, alloc \in BOOLEAN :
       scratch = [op |-> "init", tag |-> "", now1 |-> 0, now |-> 0,
                  t |-> [allocated |-> alloc,
                         entries |-> [i \in 1..(IF alloc THEN m ELSE 0) |-> NoEntry],
                         entryCount |-> 0,
                         maxEntries |-> m,
                         elapsedTime |-> 0,
                         on |-> 0,
                         wrote |-> 0 - 1,
                         state |-> "ok"]]

Running == scratch.t.state \in {"ok", "stray"}

TimerOn ==
  /\ Running
  /\ \E now \in Times :
       scratch' = [scratch EXCEPT !.op = "on", !.now = now, !.t = on(scratch.t, now)]
  /\ ScratchFrame

TimerOff ==
  /\ Running
  /\ \E now \in Times :
       /\ off(scratch.t, now).elapsedTime \in (0 - MaxElapsed)..MaxElapsed
       /\ scratch' = [scratch EXCEPT !.op = "off", !.now = now, !.t = off(scratch.t, now)]
  /\ ScratchFrame

TimerMark ==
  /\ Running
  /\ \E tag \in Tags, now \in Times :
       \E t2 \in mark(scratch.t, tag, now) :
         scratch' = [scratch EXCEPT !.op = "mark", !.tag = tag, !.now = now, !.t = t2]
  /\ ScratchFrame

TimerOffTag ==
  /\ Running
  /\ \E tag \in Tags, now1 \in Times, now \in Times :
       /\ off(scratch.t, now1).elapsedTime \in (0 - MaxElapsed)..MaxElapsed
       /\ \E t2 \in off_tag(scratch.t, tag, now1, now) :
            scratch' = [scratch EXCEPT !.op = "off_tag", !.tag = tag,
                                       !.now1 = now1, !.now = now, !.t = t2]
  /\ ScratchFrame

NextTimer == TimerOn \/ TimerOff \/ TimerMark \/ TimerOffTag

SpecTimer == InitTimer /\ [][NextTimer]_vars

----------------------------------------------------------------------------
(* Claims.                                                                 *)

\* C1: promotion preserves bytes.  In every state the calls can reach, for
\* every usable buffer whose bytes were last written as X (and on which zlib
\* has not failed since), a make_resident() now leaves the buffer holding
\* exactly X.
C1_PromotionPreservesBytes ==
  \A b \in Buffers :
    Usable(b) /\ written[b].ok =>
      \A env \in EnvExpand :
        make_resident(W, b, env).cdata[b].data = written[b].bytes

InMemory(c) == c \in {RC_resident, RC_compressed}
OnDisk(c) == c \in {RC_disk, RC_compressed_disk}
MostRecent(w, t, b) == Len(w.lru_list[t]) > 0 /\ w.lru_list[t][Len(w.lru_list[t])] = b

\* C2: the residency class and the storage agree.  For every usable buffer,
\* class Resident or Compressed implies no saved block, and class Disk or
\* CompressedDisk implies a saved block and empty in-memory bytes.
C2_ClassAgreesWithStorage ==
  \A b \in Buffers :
    Usable(b) =>
      /\ InMemory(ram_class[b]) => saved_block[b] = NULL
      /\ OnDisk(ram_class[b]) => saved_block[b] # NULL /\ cdata[b].data = << >>

\* C3: every usable buffer is linked in exactly one tier, once, and that
\* tier is the one of its residency class: Resident -> ram, Compressed ->
\* compressed, Disk and CompressedDisk -> disk.  Hence the assertion that
\* opens evict_lru holds whenever evict_lru can be called.
TierOfClass(c) ==
  IF c = RC_resident THEN ram_lru
  ELSE IF c = RC_compressed THEN compressed_lru
  ELSE disk_lru

C3_EnrolledInMatchingTier ==
  \A b \in Buffers :
    Usable(b) =>
      /\ page_lru[b] = TierOfClass(ram_class[b])
      /\ \A t \in Tiers :
           Count(lru_list[t], b) = IF t = TierOfClass(ram_class[b]) THEN 1 ELSE 0
      /\ page_lru[b] = global_lru(ram_class[b])

C3_Witness ==
  \E a \in Buffers, b \in Buffers :
    /\ Usable(a) /\ Usable(b)
    /\ ram_class[a] = RC_compressed_disk /\ page_lru[a] = disk_lru
    /\ ram_class[b] = RC_compressed /\ page_lru[b] = compressed_lru

\* C4: make_resident() on a usable buffer of any residency class (on whose
\* bytes zlib has not failed) returns with the buffer Resident, without a
\* saved block, holding data_full_size bytes, at the most-recently-used end
\* of the ram tier.
C4_MakeResidentReachesResident ==
  \A b \in Buffers :
    Usable(b) /\ written[b].ok =>
      \A env \in EnvExpand :
        LET w2 == make_resident(W, b, env) IN
        /\ w2.ram_class[b] = RC_resident
        /\ w2.saved_block[b] = NULL
        /\ Len(w2.cdata[b].data) = w2.cdata[b].data_full_size
        /\ w2.page_lru[b] = ram_lru
        /\ MostRecent(w2, ram_lru, b)

\* C5: when the save file accepts the write, make_disk() takes a Resident
\* buffer to Disk and a Compressed buffer to CompressedDisk; the saved block
\* is a block that was free, it holds exactly the bytes that were in memory,
\* and the in-memory bytes are empty afterwards.
C5_MakeDiskStoresBytes ==
  \A b \in Buffers :
    /\ Usable(b)
    /\ InMemory(ram_class[b])
    /\ write_data(save_file, cdata[b].data) # NULL
    => LET w2 == make_disk(W, b) IN
       /\ w2.ram_class[b] =
            IF ram_class[b] = RC_resident THEN RC_disk ELSE RC_compressed_disk
       /\ w2.saved_block[b] \in Blocks \ DOMAIN save_file
       /\ DOMAIN w2.save_file = DOMAIN save_file \cup {w2.saved_block[b]}
       /\ w2.save_file[w2.saved_block[b]] = cdata[b].data
       /\ \A k \in DOMAIN save_file : w2.save_file[k] = save_file[k]
       /\ w2.cdata[b].data = << >>

C5_Witness ==
  \E a \in Buffers, b \in Buffers :
    /\ Usable(a) /\ ram_class[a] = RC_compressed_disk /\ saved_block[a] # NULL
    /\ save_file[saved_block[a]] = compress2(<<0, 0>>) /\ cdata[a].data = << >>
    /\ Usable(b) /\ ram_class[b] = RC_resident /\ Len(cdata[b].data) > 0
    /\ write_data(save_file, cdata[b].data) # NULL

\* C6: when the save file refuses the write, make_disk() leaves the class,
\* the bytes, data_full_size, the absent saved block, the save file, the
\* tier and the sizes as they were, and only moves the buffer to the
\* most-recently-used end of its tier.
C6_RefusedWriteKeepsState ==
  \A b \in Buffers :
    /\ Usable(b)
    /\ InMemory(ram_class[b])
    /\ write_data(save_file, cdata[b].data) = NULL
    => LET w2 == make_disk(W, b)
           t == page_lru[b]
       IN /\ w2.ram_class = ram_class
          /\ w2.cdata = cdata
          /\ w2.saved_block = saved_block /\ saved_block[b] = NULL
          /\ w2.save_file = save_file
          /\ w2.page_lru = page_lru
          /\ w2.lru_size = lru_size
          /\ w2.total_size = total_size
          /\ w2.lru_list[t] = Append(Remove(lru_list[t], b), b)
          /\ \A u \in Tiers \ {t} : w2.lru_list[u] = lru_list[u]

C6_Witness ==
  \E b \in Buffers :
    /\ Usable(b)
    /\ InMemory(ram_class[b])
    /\ write_data(save_file, cdata[b].data) = NULL
    /\ make_disk(W, b).lru_list # lru_list

\* C7: restore_from_disk() takes a Disk buffer to Resident and a
\* CompressedDisk buffer to Compressed; the in-memory bytes become the bytes
\* of the saved block, the block is freed and the reference cleared.  On a
\* Resident or Compressed buffer it changes nothing.
C7_RestoreFromDisk ==
  \A b \in Buffers :
    Usable(b) =>
      LET w2 == restore_from_disk(W, b) IN
      /\ InMemory(ram_class[b]) => w2 = W
      /\ OnDisk(ram_class[b]) =>
           /\ w2.ram_class[b] =
                IF ram_class[b] = RC_disk THEN RC_resident ELSE RC_compressed
           /\ w2.saved_block[b] = NULL
           /\ saved_block[b] \in DOMAIN save_file
           /\ w2.cdata[b].data = save_file[saved_block[b]]
           /\ DOMAIN w2.save_file = DOMAIN save_file \ {saved_block[b]}

\* C8: residency idempotence.  From every reachable state and for every
\* usable buffer, make_resident, make_compressed and make_disk called twice
\* in a row leave the same world as called once (in one build, so zfail is
\* the same in both calls).
C8_Idempotence ==
  \A b \in Buffers :
    Usable(b) =>
      /\ \A e1 \in EnvExpand, e2 \in EnvExpand :
           e1.zfail = e2.zfail =>
             make_resident(make_resident(W, b, e1), b, e2) = make_resident(W, b, e1)
      /\ \A e1 \in EnvCompress, e2 \in EnvCompress :
           make_compressed(make_compressed(W, b, e1), b, e2) = make_compressed(W, b, e1)
      /\ make_disk(make_disk(W, b), b) = make_disk(W, b)

C8_Witness ==
  \E b \in Buffers, c \in Buffers, d \in Buffers :
    /\ Usable(b) /\ Usable(c) /\ Usable(d)
    /\ \E e \in EnvExpand :
         /\ make_resident(W, b, e).ram_class # ram_class
         /\ make_resident(W, b, e).cdata # cdata
    /\ \E e \in EnvCompress : make_compressed(W, c, e).cdata # cdata
    /\ make_disk(W, d).save_file # save_file

\* C9: in make_compressed() on a Resident buffer with data_full_size above
\* min-vertex-data-compress-size, if zlib fails or returns a blob larger
\* than the input, the buffer keeps its uncompressed bytes and is labelled
\* Compressed.
C9_KeepsBytesWhenCodecUnhelpful ==
  \A b \in Buffers :
    /\ Usable(b)
    /\ ram_class[b] = RC_resident
    /\ cdata[b].data_full_size > min_vertex_data_compress_size
    => \A env \in EnvCompress :
         \/ ~env.zok
         \/ Len(compress2(compress_source(cdata[b], env))) > cdata[b].data_full_size
         => LET w2 == make_compressed(W, b, env) IN
            /\ w2.cdata[b].data = cdata[b].data
            /\ w2.ram_class[b] = RC_compressed

Rank(c) ==
  IF c = RC_resident THEN 2 ELSE IF c = RC_compressed THEN 1 ELSE 0

\* C11 as stated: evict_lru() takes a Resident buffer to Compressed when the
\* compressed tier's budget is nonzero and to Disk when it is 0, takes a
\* Compressed buffer to CompressedDisk, and never raises the class.
C11_EvictionCascade ==
  \A b \in Buffers :
    Usable(b) =>
      \A env \in EnvCompress :
        LET c2 == evict_lru(W, b, env).ram_class[b] IN
        /\ ram_class[b] = RC_resident /\ max_size[compressed_lru] # 0
             => c2 = RC_compressed
        /\ ram_class[b] = RC_resident /\ max_size[compressed_lru] = 0
             => c2 = RC_disk
        /\ ram_class[b] = RC_compressed => c2 = RC_compressed_disk
        /\ Rank(c2) <= Rank(ram_class[b])

\* C11 amended: the two moves to disk happen when the save file accepts the
\* write; when it refuses, the buffer stays in the class it had.  A
\* Resident buffer never becomes Compressed when the budget is 0, and the
\* class is never raised.
C11_EvictionCascadeUnlessRefused ==
  \A b \in Buffers :
    Usable(b) =>
      \A env \in EnvCompress :
        LET c2 == evict_lru(W, b, env).ram_class[b]
            accepted == write_data(save_file, cdata[b].data) # NULL
        IN
        /\ ram_class[b] = RC_resident /\ max_size[compressed_lru] # 0
             => c2 = RC_compressed
        /\ ram_class[b] = RC_resident /\ max_size[compressed_lru] = 0
             => c2 = (IF accepted THEN RC_disk ELSE RC_resident)
        /\ ram_class[b] = RC_compressed
             => c2 = (IF accepted THEN RC_compressed_disk ELSE RC_compressed)
        /\ Rank(c2) <= Rank(ram_class[b])

C11_Witness ==
  \E a \in Buffers, b \in Buffers :
    /\ Usable(a) /\ ram_class[a] = RC_resident /\ max_size[compressed_lru] = 0
    /\ Len(cdata[a].data) > 0
    /\ evict_lru(W, a, CHOOSE e \in EnvCompress : TRUE).ram_class[a] = RC_disk
    /\ Usable(b) /\ ram_class[b] = RC_compressed
    /\ write_data(save_file, cdata[b].data) = NULL
    /\ evict_lru(W, b, CHOOSE e \in EnvCompress : TRUE).ram_class[b] = RC_compressed

IsPrefix(x, y) == Len(x) <= Len(y) /\ SubSeq(y, 1, Len(x)) = x

\* C12: the disk tier never auto-evicts.  evict_lru() on a buffer in class
\* Disk or CompressedDisk changes nothing at all; lru_epoch() leaves the
\* class, saved block, bytes and tier of every buffer on disk as they are
\* and only appends to the disk tier's list, whatever the disk tier's size;
\* and no make_disk() or evict_lru() on any buffer takes a buffer out of
\* the disk classes.
C12_DiskTierNeverEvicts ==
  \A b \in Buffers :
    Usable(b) /\ OnDisk(ram_class[b]) =>
      \A env \in EnvCompress :
        /\ evict_lru(W, b, env) = W
        /\ LET w2 == lru_epoch(W, env) IN
           /\ w2.ram_class[b] = ram_class[b]
           /\ w2.saved_block[b] = saved_block[b]
           /\ w2.cdata[b] = cdata[b]
           /\ w2.page_lru[b] = page_lru[b]
           /\ IsPrefix(lru_list[disk_lru], w2.lru_list[disk_lru])
        /\ \A c \in Buffers :
             Usable(c) =>
               /\ OnDisk(evict_lru(W, c, env).ram_class[b])
               /\ OnDisk(make_disk(W, c).ram_class[b])

C12_Witness ==
  \E b \in Buffers :
    /\ Usable(b) /\ OnDisk(ram_class[b]) /\ saved_block[b] # NULL
    /\ Len(save_file[saved_block[b]]) > 0
    /\ total_size[disk_lru] > max_size[disk_lru]
    /\ \E env \in EnvCompress : lru_epoch(W, env) # W

MaxPage(w, t) ==
  IF w.lru_list[t] = << >> THEN 0
  ELSE LET sizes == {w.lru_size[w.lru_list[t][i]] : i \in 1..Len(w.lru_list[t])}
       IN CHOOSE m \in sizes : \A n \in sizes : n <= m

Snapshot(s) == IF s = 0 THEN cdata[PBuf] ELSE stage1[PBuf]

\* C15: stage isolation.  What a reader of a stage obtains (the bytes after
\* its residency check) is what was last written at that stage or cycled
\* into it, whatever writes and residency transitions other stages made
\* since.
C15_StageIsolation ==
  \A s \in Stages :
    Usable(PBuf) /\ Written(s).ok =>
      \A env \in StageEnvExpand :
        make_resident(at_stage(W, s), PBuf, env).cdata[PBuf].data = Written(s).bytes

\* C16: every change of the bytes stored in a snapshot comes with a fresh
\* stamp drawn when the bytes are in place, so the bytes stored under a
\* stamp are the bytes the stamp was drawn for.
C16_SameStampSameBytes ==
  \A s \in Stages :
    Usable(PBuf) =>
      /\ modified[PBuf][s] \in DOMAIN stamped
      /\ Snapshot(s).data = stamped[modified[PBuf][s]]

\* C17: set_num_rows(n) leaves n * stride bytes, the first min(L, n * stride)
\* of them unchanged and the added ones 0, and returns true exactly when
\* the length changed; unclean_set_num_rows(n) leaves the same length and
\* returns the same value.  L need not be a multiple of stride.
C17_SetNumRows ==
  LET L == Len(scratch.data)
      want == scratch.n * scratch.stride
      keep == IF L < want THEN L ELSE want
  IN /\ scratch.op = "set_num_rows" =>
          /\ Len(scratch.out) = want
          /\ SubSeq(scratch.out, 1, keep) = SubSeq(scratch.data, 1, keep)
          /\ \A i \in (L + 1)..Len(scratch.out) : scratch.out[i] = 0
          /\ scratch.ret <=> (Len(scratch.out) # L)
     /\ scratch.op = "unclean_set_num_rows" =>
          /\ Len(scratch.out) = want
          /\ scratch.ret <=> (Len(scratch.out) # L)

ComponentBytes(f, col, row, cj) ==
  LET first == row * f.stride + col.start + cj * col.component_bytes
  IN (first + 1)..(first + col.component_bytes)

Mirror(f, col, row, cj, i) ==
  LET first == row * f.stride + col.start + cj * col.component_bytes
  IN (2 * first + col.component_bytes + 1) - i

\* C20: reverse_data_endianness writes to dest, for every row and every
\* column whose component size is greater than 1, each component with its
\* bytes in reverse order; applied twice it returns the original bytes of
\* those columns.
C20_ReverseDataEndianness ==
  scratch.op \in {"reversed", "twice"} =>
    LET f == scratch.format IN
    \A row \in 0..((Len(scratch.data) \div f.stride) - 1) :
      \A k \in 1..Len(f.columns) :
        LET col == f.columns[k] IN
        col.component_bytes > 1 =>
          \A cj \in 0..(col.num_components - 1) :
            \A i \in ComponentBytes(f, col, row, cj) :
              /\ scratch.out[i] = scratch.data[Mirror(f, col, row, cj, i)]
              /\ scratch.op = "twice" => scratch.out2[i] = scratch.data[i]

\* C19: a buffer with bytes X (a whole number of rows of its format),
\* written to a stream and read back with fillin, complete_pointers and
\* finalize, is a Resident buffer whose bytes equal X, for a stream of
\* native endianness and for a stream of the opposite endianness.
C19_RoundTrip ==
  scratch.op = "finalized" =>
    /\ scratch.obj.ram_class = RC_resident
    /\ scratch.obj.data = scratch.cdata.data

\* C21: release_all() leaves the device-context table empty and returns
\* the number of contexts the table held when it was called; the callbacks
\* of the devices remove the entries while the loop runs over a copy, so
\* no entry is skipped or released twice.
C21_ReleaseAll ==
  call.op = "release_all" =>
    /\ contexts = {}
    /\ call.ret = Cardinality(call.before)
    /\ ~call.failed

\* release_all() has run on a table that held a context for each of two
\* devices.
C21_Witness ==
  /\ call.op = "release_all"
  /\ Cardinality(call.before) = 2
  /\ call.ret = 2
  /\ contexts = {}

\* C22: the table holds at most one context per device.  prepare_now(d)
\* asks the device for a new context only when d has no entry and stores
\* it only when it is not NULL; when d has an entry it returns that
\* context and leaves the table alone, so a second prepare_now(d) without
\* a release in between returns the context of the first.  is_prepared(d)
\* is true whenever d has an entry or the buffer is queued on d.
C22_OneContextPerDevice ==
  /\ \A p \in contexts, q \in contexts : p[1] = q[1] => p = q
  /\ call.op = "prepare_now" =>
       LET had == {p \in call.before : p[1] = call.d} IN
       /\ call.asked <=> (had = {})
       /\ had # {} => /\ contexts = call.before
                      /\ <<call.d, call.ret>> \in call.before
       /\ had = {} => contexts = IF call.ret # NULL
                                 THEN call.before \cup {<<call.d, call.ret>>}
                                 ELSE call.before
  /\ call.op = "is_prepared" =>
       (call.ret <=> (\E p \in contexts : p[1] = call.d) \/ call.d \in queued)

\* prepare_now() on a device that had a context: the call returned that
\* context without asking the device, while another device holds one too.
C22_Witness ==
  /\ call.op = "prepare_now"
  /\ ~call.asked
  /\ call.ret # NULL
  /\ Cardinality(contexts) = 2

\* C23: clear_prepared(d) for a device with an entry removes that entry and
\* no other; for a device with no entry it fails an assertion and leaves
\* the table unchanged.
C23_ClearPrepared ==
  call.op = "clear_prepared" =>
    LET had == {p \in call.before : p[1] = call.d} IN
    /\ had # {} => /\ contexts = call.before \ had
                   /\ ~call.failed
    /\ had = {} => /\ contexts = call.before
                   /\ call.failed

\* clear_prepared() has removed the entry of one device and left the entry
\* of the other.
C23_Witness ==
  /\ call.op = "clear_prepared"
  /\ ~call.failed
  /\ Cardinality(call.before) = 2
  /\ Cardinality(contexts) = 1
  /\ \A p \in contexts : p[1] # call.d

\* The live buffers whose class says their bytes are in the save file.
LiveOnDisk ==
  {b \in Buffers : phase[b] # "none" /\ ram_class[b] \in {RC_disk, RC_compressed_disk}}

\* C24: the blocks allocated in the save file are exactly the saved blocks
\* of the live buffers in class Disk or CompressedDisk, one block per such
\* buffer and no block for two buffers; a buffer in another class holds no
\* block.
C24_SaveBlocks ==
  /\ DOMAIN save_file = {saved_block[b] : b \in LiveOnDisk}
  /\ \A b \in LiveOnDisk : saved_block[b] # NULL
  /\ \A b \in LiveOnDisk, c \in LiveOnDisk : saved_block[b] = saved_block[c] => b = c
  /\ \A b \in Buffers \ LiveOnDisk : saved_block[b] = NULL

C26_MutationFrame ==
  Usable(PBuf) =>
    \A s \in Stages, m \in HandleCalls, env \in EnvExpand :
      LET w0 == at_stage(W, s)
          w2 == handle_call(w0, PBuf, m, env, s, TRUE)
      IN /\ handle_call(w0, PBuf, m, env, s, FALSE) = w0
         /\ mutates(w0, PBuf, m, env) =>
              IF s = 0
              THEN /\ w2.ram_class[PBuf] = RC_resident
                   /\ w2.page_lru[PBuf] = ram_lru
                   /\ w2.lru_size[PBuf] = Len(w2.cdata[PBuf].data)
              ELSE /\ w2.ram_class[PBuf] = w0.ram_class[PBuf]
                   /\ w2.page_lru[PBuf] = w0.page_lru[PBuf]
                   /\ w2.lru_size[PBuf] = w0.lru_size[PBuf]

\* C27: reading from a stream whose endianness is not the native one
\* reverses the bytes exactly once between the start of fillin and the end
\* of finalize: in fillin when the format is resolved, and then not in
\* finalize; in finalize when it was not, fillin having set
\* endian_reversed.  From a native stream the bytes are never reversed.
\* After finalize the buffer is Resident.
C27_ReversedOnce ==
  LET foreign == scratch.file_endian # "BE_native" IN
  /\ scratch.op \in {"read", "completed"} =>
       /\ scratch.obj.reversals = IF foreign /\ scratch.resolved THEN 1 ELSE 0
       /\ scratch.obj.endian_reversed <=> (foreign /\ ~scratch.resolved)
  /\ scratch.op = "finalized" =>
       /\ scratch.obj.reversals = IF foreign THEN 1 ELSE 0
       /\ scratch.obj.ram_class = RC_resident

\* An object read from a foreign stream before its format was resolved has
\* been finalized: the one reversal was made in finalize.
C27_Witness ==
  /\ scratch.op = "finalized"
  /\ scratch.file_endian = "BE_reversed"
  /\ ~scratch.resolved
  /\ scratch.obj.endian_reversed
  /\ scratch.obj.reversals = 1
  /\ Len(scratch.obj.data) > 0

\* C28: data_full_size records the uncompressed length: make_resident,
\* make_compressed, make_disk and restore_from_disk leave it unchanged,
\* every handle mutation and fillin set it to the new byte length, and a
\* Resident buffer holds exactly data_full_size bytes in memory.
C28_DataFullSize ==
  \A b \in Buffers :
    /\ phase[b] = "read" => cdata[b].data_full_size = Len(cdata[b].data)
    /\ Usable(b) =>
         /\ ram_class[b] = RC_resident => Len(cdata[b].data) = cdata[b].data_full_size
         /\ \A env \in EnvExpand \cup EnvCompress :
              /\ make_resident(W, b, env).cdata[b].data_full_size = cdata[b].data_full_size
              /\ make_compressed(W, b, env).cdata[b].data_full_size = cdata[b].data_full_size
              /\ make_disk(W, b).cdata[b].data_full_size = cdata[b].data_full_size
              /\ restore_from_disk(W, b).cdata[b].data_full_size = cdata[b].data_full_size
         /\ \A env \in EnvExpand, m \in HandleCalls :
              mutates(W, b, m, env) /\ (m.op \in {"copy_data_from", "copy_subdata_from"} => Usable(m.other)) =>
                LET w2 == handle_call(W, b, m, env, 0, TRUE)
                IN w2.cdata[b].data_full_size = Len(w2.cdata[b].data)

\* The number of bytes buffer b holds: in memory when it is Resident or
\* Compressed, in its saved block when it is Disk or CompressedDisk.
HeldBytes(b) ==
  IF ram_class[b] \in {RC_resident, RC_compressed} THEN Len(cdata[b].data)
  ELSE IF saved_block[b] \in DOMAIN save_file THEN Len(save_file[saved_block[b]])
       ELSE 0 - 1

RECURSIVE SumHeld(_)
SumHeld(pages) ==
  IF pages = << >> THEN 0 ELSE HeldBytes(Head(pages)) + SumHeld(Tail(pages))

C30_CopyConstruct ==
  \A b \in Buffers, copy \in Buffers :
    phase[b] = "none" /\ Usable(copy) /\ written[copy].ok =>
      LET w1 == copy_construct(W, b, copy) IN
      /\ saved_block[copy] # NULL => w1.saved_block[b] # saved_block[copy]
      /\ \A env \in EnvExpand :
           /\ make_resident(w1, b, env).cdata[b].data
                = make_resident(W, copy, env).cdata[copy].data
           /\ make_resident(w1, copy, env).cdata[copy].data
                = make_resident(W, copy, env).cdata[copy].data

\* C31: after the copy assignment a = b, for any residency classes of a and
\* b (zlib not having failed on b's bytes), the class of a describes the
\* bytes a holds (Resident: the bytes b stood for; Compressed: codec output;
\* Disk and CompressedDisk: empty bytes and a saved block of a's own), every
\* stage of a carries a stamp that was not issued before, and
\* a.make_resident() yields the bytes b stood for.
C31_CopyAssignment ==
  [][\A a \in Buffers, b \in Buffers :
       Assign(a, b) /\ written[b].ok =>
         \A env \in EnvExpand :
           LET contents == make_resident(W, b, env).cdata[b].data IN
           /\ ram_class'[a] = RC_resident => cdata'[a].data = contents
           /\ ram_class'[a] = RC_compressed => IsDeflated(cdata'[a].data)
           /\ OnDisk(ram_class'[a]) =>
                /\ cdata'[a].data = << >>
                /\ saved_block'[a] # NULL
                /\ \A c \in Buffers \ {a} : saved_block'[c] # saved_block'[a]
           /\ \A s \in Stages :
                /\ modified'[a][s] >= next_modified
                /\ modified'[a][s] < next_modified'
           /\ make_resident(W', a, env).cdata[a].data = contents]_vars

\* The timer a mark() of the step started from: the timer before the
\* step, after the off() of off(tag) when the step is off(tag).
Marked == IF scratch'.op = "off_tag" THEN off(scratch.t, scratch'.now1) ELSE scratch.t

\* C32: for a timer whose entries array is allocated with _maxEntries
\* slots, every mark() leaves _entryCount at most _maxEntries - 1 and writes
\* to a slot in [0, _maxEntries): while _entryCount < _maxEntries - 1 it
\* records tag and time in slot _entryCount and advances the count by one;
\* after that it only overwrites the tag of slot _entryCount with the
\* overflow marker and leaves the count unchanged.
C32_Mark ==
  [][(scratch'.op \in {"mark", "off_tag"} /\ scratch.t.allocated /\ scratch.t.state = "ok") =>
       LET t0 == Marked
           t1 == scratch'.t
           n == t0.entryCount
       IN /\ t1.entryCount <= t1.maxEntries - 1
          /\ t1.wrote \in 0..(t1.maxEntries - 1)
          /\ t1.state = "ok"
          /\ t1.wrote = n
          /\ \A i \in DOMAIN t0.entries : i # n + 1 => t1.entries[i] = t0.entries[i]
          /\ IF n < t0.maxEntries - 1
             THEN /\ t1.entries[n + 1] =
                       [tag |-> scratch'.tag,
                        time |-> t0.elapsedTime + scratch'.now - t0.on]
                  /\ t1.entryCount = n + 1
             ELSE /\ n + 1 \in DOMAIN t1.entries
                  /\ t1.entries[n + 1] = [t0.entries[n + 1] EXCEPT !.tag = Overflow]
                  /\ t1.entryCount = n
                  /\ t1.elapsedTime = t0.elapsedTime /\ t1.on = t0.on]_vars

====
